---- MODULE Spec2Model ----
(***************************************************************************)
(* Model of Notifier (src/components/notifier/Notifier.cpp): the popup     *)
(* notification manager of the softphone.  The state is the Notifier's     *)
(* counter, offset and mutex, the notification objects it has created      *)
(* (their QML properties, their window, their destroy timer, the call      *)
(* model a call notification is connected to) and, per thread, the         *)
(* position inside notifyReceived*, createNotification and the             *)
(* visibleChanged handler.  The model covers the lifetime of the Notifier  *)
(* object: ~Notifier is not a step of it.                                  *)
(***************************************************************************)
EXTENDS Integers, Sequences, FiniteSets, TLC

VARIABLES
  m_n_instances,   \* Notifier::m_n_instances
  m_offset,        \* Notifier::m_offset
  m_mutex,         \* Notifier::m_mutex: the thread that holds it, or NoThread
  notifications,   \* the notification objects created so far, in creation order
  pc,              \* per thread: where it is in the code
  frame            \* per thread: the locals of the operation it runs

vars == <<m_n_instances, m_offset, m_mutex, notifications, pc, frame>>

---------------------------------------------------------------------------
\* Program constants (Notifier.cpp:45-52).

NOTIFICATION_TIMEOUT_RECEIVED_MESSAGE == 10000
NOTIFICATION_TIMEOUT_RECEIVED_FILE_MESSAGE == 10000
NOTIFICATION_TIMEOUT_RECEIVED_CALL == 10000
NOTIFICATION_SPACING == 10
N_MAX_NOTIFICATIONS == 15
MAX_TIMEOUT == 60000

\* Notifier::NotificationType, the index of m_components.
MessageReceived == "MessageReceived"
FileMessageReceived == "FileMessageReceived"
CallReceived == "CallReceived"

\* CallModel::CallStatus: the value the code tests, and the others.
CallStatusEnded == "CallStatusEnded"
CallStatusIncoming == "CallStatusIncoming"
CallStatusConnected == "CallStatusConnected"

---------------------------------------------------------------------------
\* Bounds of the model.

\* Spec: notification objects created in one run.
MaxObjects == 2
\* SpecCap: notification objects created in one run (the cap of 15 is reached
\* and one more is created after a notification has gone).
MaxCapObjects == 16
\* SpecCap: notifications that go (hidden or destroyed) while the stack is full.
MaxCapGone == 1
\* SpecLive: notification objects created in one run.
MaxLiveObjects == 1
\* SpecTimeout: notification objects created in one run.
MaxTimeoutObjects == 1

\* The threads: the GUI thread runs the event loop (window, timer and call model
\* signals) and may call notifyReceived*; the other thread only calls notifyReceived*.
GuiThread == "gui"
CoreThread == "core"
Threads == {GuiThread, CoreThread}
NoThread == "none"

\* Values a QML object's notificationHeight property can hold (a QVariant).
InvalidVariant == [kind |-> "invalid", value |-> 0]
IntVariant(n) == [kind |-> "int", value |-> n]
HeightProperties == {InvalidVariant, IntVariant(-5), IntVariant(20), IntVariant(50)}
CapHeightProperties == {InvalidVariant, IntVariant(20)}

\* Timeouts handed to showNotification in SpecTimeout.
TimeoutInputs == {-1, 10000, 60000, 60001, 120000}

---------------------------------------------------------------------------
\* Values of the locals.

Null == 0          \* nullptr: object ids are 1, 2, ...
NoObject == [notificationHeight |-> InvalidVariant, settable |-> FALSE, made |-> FALSE]
NoTimer == -2      \* no single-shot timer pending
NoCall == "NoCall"

EmptyFrame ==
  [op |-> "none", type |-> "none", timeout |-> 0, object |-> NoObject, notification |-> Null]

\* QVariant::toInt(&ok).
VariantToInt(variant) ==
  IF variant.kind = "int" THEN [value |-> variant.value, ok |-> TRUE]
  ELSE [value |-> 0, ok |-> FALSE]

\* Mutant: the size without the validity test.
getNotificationSizeUnchecked(variant) == VariantToInt(variant).value

\* getNotificationSize: the size, or -1 when it is no integer or negative.
getNotificationSize(variant) ==
  LET r == VariantToInt(variant)
  IN IF ~r.ok \/ r.value < 0 THEN -1 ELSE r.value

\* ::setProperty: whether QObject::setProperty took the value.
setProperty(object) == object.settable

\* Mutants of the capacity check: the check left out, and the check off by one.
CapacityUnchecked == FALSE
CapacityOffByOne == m_n_instances > N_MAX_NOTIFICATIONS

\* createNotification line 113.
CapacityReached == m_n_instances >= N_MAX_NOTIFICATIONS

\* createNotification line 123.
CreationFailed(offset, object) == offset = -1 \/ ~setProperty(object)

\* Mutant: the spacing between two popups forgotten.
NextOffsetNoSpacing(offset) == offset + m_offset

\* Mutant: the popup's height left out of the step of the offset.
NextOffsetHeightForgotten(offset) == m_offset + NOTIFICATION_SPACING

\* createNotification line 129.
NextOffset(offset) == (offset + m_offset) + NOTIFICATION_SPACING

\* Mutant: the timeout used as given.
ClampTimeoutNone(timeout) == timeout

\* showNotification lines 138-140.
ClampTimeout(timeout) == IF timeout > MAX_TIMEOUT THEN MAX_TIMEOUT ELSE timeout

\* Mutant: an exit path that returns without m_mutex.unlock().
MutexKept(t) == t

\* m_mutex after m_mutex.unlock() on each exit path: the capacity rejection
\* (line 115), the creation failure (line 125), the success (line 132) and the
\* end of the visibleChanged handler (line 169).
MutexAfterRejection(t) == NoThread
MutexAfterFailure(t) == NoThread
MutexAfterCreation(t) == NoThread
MutexAfterHandler(t) == NoThread

\* Mutant: the offset reset while one notification is still counted.
OffsetAfterHideEarly(n) == IF n <= 1 THEN 0 ELSE m_offset

\* Mutant: the offset never reset.
OffsetAfterHideKept(n) == m_offset

\* visibleChanged handler lines 166-167, given the decremented counter.
OffsetAfterHide(n) == IF n = 0 THEN 0 ELSE m_offset

---------------------------------------------------------------------------
\* The notification objects.

Ids == 1..Len(notifications)

\* The object createNotification returns: created, offset set, not shown yet.
NewNotification(type, height) ==
  [type |-> type,
   notificationHeight |-> height,
   notificationOffset |-> m_offset,
   exists |-> TRUE,            \* not deleted
   window |-> "created",       \* the QQuickWindow: created, visible, hidden
   handler |-> FALSE,          \* visibleChanged connected to the counter lambda
   timer |-> NoTimer,          \* delay of the pending destroy timer
   timeout |-> 0,              \* the timeout showNotification was called with
   op |-> "none",              \* the operation that showed it
   dismissed |-> FALSE,        \* the user has dismissed it
   expired |-> FALSE,          \* its destroy timer has fired
   call |-> NoCall]            \* status of the CallModel connected to it

\* What is left of a deleted notification: nothing but the call model it was
\* connected to, which lives on.
DeletedNotification(n) ==
  [type |-> "deleted", notificationHeight |-> 0, notificationOffset |-> 0,
   exists |-> FALSE, window |-> "hidden", handler |-> FALSE, timer |-> NoTimer,
   timeout |-> 0, op |-> "none", dismissed |-> FALSE, expired |-> TRUE,
   call |-> n.call]

Exists(id) == notifications[id].exists
Visible(id) == notifications[id].exists /\ notifications[id].window = "visible"
Shown(id) == notifications[id].window # "created"

\* Notifications created and neither hidden nor destroyed.
LiveInstances == {id \in Ids : Exists(id) /\ notifications[id].window # "hidden"}
\* Notifications whose window was hidden or that were destroyed.
Gone == {id \in Ids : ~Exists(id) \/ notifications[id].window = "hidden"}
InFlight == {t \in Threads : pc[t] \in {"cn_lock", "cn_check", "cn_create"}}

---------------------------------------------------------------------------
\* The values the counter and the offset start with: the member initialisers
\* of Notifier.hpp, which is not among the sources; with no notification
\* created yet none is counted and the stack is empty.
InitialInstances == 0
InitialOffset == 0

\* The Notifier after its constructor (lines 83-100): no notification yet, the
\* mutex free, every thread outside the Notifier's operations.
Init ==
  /\ m_n_instances = InitialInstances
  /\ m_offset = InitialOffset
  /\ m_mutex = NoThread
  /\ notifications = <<>>
  /\ pc = [t \in Threads |-> "idle"]
  /\ frame = [t \in Threads |-> EmptyFrame]

\* A caller of createNotification and showNotification: notifyReceived* up to
\* the call of createNotification (lines 183-184, 197-198, 210-211).
Notify(t, op, type, timeout) ==
  /\ pc[t] = "idle"
  /\ pc' = [pc EXCEPT ![t] = "cn_lock"]
  /\ frame' = [frame EXCEPT ![t] =
       [op |-> op, type |-> type, timeout |-> timeout, object |-> NoObject,
        notification |-> Null]]
  /\ UNCHANGED <<m_n_instances, m_offset, m_mutex, notifications>>

notifyReceivedMessage(t) ==
  Notify(t, "notifyReceivedMessage", MessageReceived, NOTIFICATION_TIMEOUT_RECEIVED_MESSAGE)

notifyReceivedFileMessage(t) ==
  Notify(t, "notifyReceivedFileMessage", FileMessageReceived,
         NOTIFICATION_TIMEOUT_RECEIVED_FILE_MESSAGE)

notifyReceivedCall(t) ==
  Notify(t, "notifyReceivedCall", CallReceived, NOTIFICATION_TIMEOUT_RECEIVED_CALL)

\* Mutant: createNotification without the wait for the mutex.
CreateLockNoWait(t) ==
  /\ pc[t] = "cn_lock"
  /\ m_mutex' = t
  /\ pc' = [pc EXCEPT ![t] = "cn_check"]
  /\ UNCHANGED <<m_n_instances, m_offset, notifications, frame>>

\* createNotification line 110: m_mutex.lock().
CreateLock(t) ==
  /\ pc[t] = "cn_lock"
  /\ m_mutex = NoThread
  /\ m_mutex' = t
  /\ pc' = [pc EXCEPT ![t] = "cn_check"]
  /\ UNCHANGED <<m_n_instances, m_offset, notifications, frame>>

\* createNotification lines 113-120: the capacity check, then the creation of
\* the QML object, whose notificationHeight and whose acceptance of
\* notificationOffset are what the QML component makes them.
CreateCheck(t, height, settable) ==
  /\ pc[t] = "cn_check"
  /\ IF CapacityReached
       THEN /\ m_mutex' = MutexAfterRejection(t)
            /\ pc' = [pc EXCEPT ![t] = "notify_ret"]
            /\ frame' = [frame EXCEPT ![t].notification = Null]
       ELSE /\ m_mutex' = m_mutex
            /\ pc' = [pc EXCEPT ![t] = "cn_create"]
            /\ frame' = [frame EXCEPT ![t].object =
                 [notificationHeight |-> height, settable |-> settable, made |-> TRUE]]
  /\ UNCHANGED <<m_n_instances, m_offset, notifications>>

\* createNotification lines 121-134.
CreateSetup(t) ==
  /\ pc[t] = "cn_create"
  /\ LET object == frame[t].object
         offset == getNotificationSize(object.notificationHeight)
     IN IF CreationFailed(offset, object)
          THEN /\ frame' = [frame EXCEPT ![t].object = NoObject,
                                         ![t].notification = Null]
               /\ m_mutex' = MutexAfterFailure(t)
               /\ UNCHANGED <<m_n_instances, m_offset, notifications>>
          ELSE /\ notifications' =
                    Append(notifications, NewNotification(frame[t].type, offset))
               /\ m_offset' = NextOffset(offset)
               /\ m_n_instances' = m_n_instances + 1
               /\ frame' = [frame EXCEPT ![t].object = NoObject,
                                         ![t].notification = Len(notifications) + 1]
               /\ m_mutex' = MutexAfterCreation(t)
  /\ pc' = [pc EXCEPT ![t] = "notify_ret"]

\* Mutant: showNotification without the single-shot destroy timer.
ShownWithoutTimer(n, op, type, timeout) ==
  [n EXCEPT !.window = "visible",
            !.handler = TRUE,
            !.timeout = timeout,
            !.op = op,
            !.call = IF type = CallReceived THEN CallStatusIncoming ELSE NoCall]

\* showNotification (lines 137-179) on the object, and for a call the connection
\* to the call model's statusChanged (lines 215-222).
ShownNotification(n, op, type, timeout) ==
  [n EXCEPT !.window = "visible",
            !.handler = TRUE,
            !.timer = ClampTimeout(timeout),
            !.timeout = timeout,
            !.op = op,
            !.call = IF type = CallReceived THEN CallStatusIncoming ELSE NoCall]

\* notifyReceived* after createNotification has returned (lines 185-195,
\* 199-208, 212-229).
NotifyShow(t) ==
  /\ pc[t] = "notify_ret"
  /\ LET id == frame[t].notification
     IN IF id = Null
          THEN UNCHANGED notifications
          ELSE notifications' = [notifications EXCEPT ![id] =
                 ShownNotification(@, frame[t].op, frame[t].type, frame[t].timeout)]
  /\ pc' = [pc EXCEPT ![t] = "idle"]
  /\ frame' = [frame EXCEPT ![t] = EmptyFrame]
  /\ UNCHANGED <<m_n_instances, m_offset, m_mutex>>

\* Mutant: the counter lambda run on every hide and destroy, visible or not.
HideWindowAlwaysEmits(id) ==
  pc' = [pc EXCEPT ![GuiThread] = "vc_lock"]

\* QWindow::setVisible(false) on the notification's window: visibleChanged is
\* emitted only when the window was visible, and the connected lambda then runs
\* on the emitting (GUI) thread.
HideWindow(id) ==
  IF Visible(id)
    THEN /\ pc' = [pc EXCEPT ![GuiThread] =
                     IF notifications[id].handler THEN "vc_lock" ELSE "idle"]
    ELSE /\ pc' = pc

\* Mutant: a dismissal that deletes the notification at once.
DismissDeletes(id) ==
  /\ pc[GuiThread] = "idle"
  /\ Visible(id)
  /\ pc' = [pc EXCEPT ![GuiThread] = "vc_lock"]
  /\ notifications' = [notifications EXCEPT ![id].window = "hidden",
                                            ![id].dismissed = TRUE,
                                            ![id].exists = FALSE]
  /\ UNCHANGED <<m_n_instances, m_offset, m_mutex, frame>>

\* The user dismisses a visible notification (a click on it): its window is hidden.
Dismiss(id) ==
  /\ pc[GuiThread] = "idle"
  /\ Visible(id)
  /\ HideWindow(id)
  /\ notifications' = [notifications EXCEPT ![id].window = "hidden",
                                            ![id].dismissed = TRUE]
  /\ UNCHANGED <<m_n_instances, m_offset, m_mutex, frame>>

\* Mutant: a lambda without the test on the status, and without a context
\* object: every status change hides the window, destroyed or not.
StatusChangedAnyStatus(id, status) ==
  /\ pc[GuiThread] = "idle"
  /\ notifications[id].call \notin {NoCall, CallStatusEnded, status}
  /\ HideWindow(id)
  /\ notifications' = [notifications EXCEPT ![id].window = "hidden",
                                            ![id].call = status]
  /\ UNCHANGED <<m_n_instances, m_offset, m_mutex, frame>>

\* The call model emits statusChanged(status); the lambda of lines 218-221 is
\* connected with the notification as context, so it runs only while the
\* notification exists.
StatusChanged(id, status) ==
  /\ pc[GuiThread] = "idle"
  /\ notifications[id].call \notin {NoCall, CallStatusEnded, status}
  /\ IF Exists(id) /\ status = CallStatusEnded
       THEN /\ HideWindow(id)
            /\ notifications' = [notifications EXCEPT ![id].window = "hidden",
                                                      ![id].call = status]
       ELSE /\ pc' = pc
            /\ notifications' = [notifications EXCEPT ![id].call = status]
  /\ UNCHANGED <<m_n_instances, m_offset, m_mutex, frame>>

\* The single-shot timer of lines 174-178 fires: delete notification.  The
\* window is deleted with it, and a window deleted while visible is hidden first.
TimerExpiry(id) ==
  /\ pc[GuiThread] = "idle"
  /\ Exists(id)
  /\ notifications[id].timer # NoTimer
  /\ HideWindow(id)
  /\ notifications' = [notifications EXCEPT ![id] = DeletedNotification(@)]
  /\ UNCHANGED <<m_n_instances, m_offset, m_mutex, frame>>

\* visibleChanged handler line 162: m_mutex.lock().
HandlerLock(t) ==
  /\ pc[t] = "vc_lock"
  /\ m_mutex = NoThread
  /\ m_mutex' = t
  /\ pc' = [pc EXCEPT ![t] = "vc_body"]
  /\ UNCHANGED <<m_n_instances, m_offset, notifications, frame>>

\* visibleChanged handler lines 164-169.
HandlerBody(t) ==
  /\ pc[t] = "vc_body"
  /\ m_n_instances' = m_n_instances - 1
  /\ m_offset' = OffsetAfterHide(m_n_instances - 1)
  /\ m_mutex' = MutexAfterHandler(t)
  /\ pc' = [pc EXCEPT ![t] = "idle"]
  /\ UNCHANGED <<notifications, frame>>

---------------------------------------------------------------------------
\* What the environment does within the bounds of a specification.

MayCreate(maxObjects) ==
  Len(notifications) + Cardinality(InFlight) < maxObjects

\* Every input, both threads, a few notifications.
Next ==
  \/ \E t \in Threads :
       /\ MayCreate(MaxObjects)
       /\ \/ notifyReceivedMessage(t)
          \/ notifyReceivedFileMessage(t)
          \/ notifyReceivedCall(t)
  \/ \E t \in Threads : CreateLock(t)
  \/ \E t \in Threads, height \in HeightProperties, settable \in BOOLEAN :
       CreateCheck(t, height, settable)
  \/ \E t \in Threads : CreateSetup(t)
  \/ \E t \in Threads : NotifyShow(t)
  \/ \E id \in Ids : Dismiss(id)
  \/ \E id \in Ids, status \in {CallStatusConnected, CallStatusEnded} :
       StatusChanged(id, status)
  \/ \E id \in Ids : TimerExpiry(id)
  \/ \E t \in Threads : HandlerLock(t)
  \/ \E t \in Threads : HandlerBody(t)

Spec == Init /\ [][Next]_vars

\* A burst that reaches the cap: chat messages of one height fill the stack;
\* once it is one short of N_MAX_NOTIFICATIONS the requests are of any kind,
\* and when it is full the oldest notification on screen or a call notification
\* may go.
NearCap == m_n_instances >= N_MAX_NOTIFICATIONS - 1
AtCap == m_n_instances = N_MAX_NOTIFICATIONS
IsGone(id) == ~Exists(id) \/ notifications[id].window = "hidden"
MayGo(id) ==
  \/ IsGone(id)
  \/ /\ AtCap
     /\ Visible(id)
     /\ Cardinality(Gone) < MaxCapGone
     /\ \/ notifications[id].type = CallReceived
        \/ \A other \in Ids : Visible(other) => id <= other

NextCap ==
  \/ \E t \in Threads :
       /\ MayCreate(MaxCapObjects)
       /\ \/ notifyReceivedMessage(t)
          \/ NearCap /\ notifyReceivedFileMessage(t)
          \/ NearCap /\ notifyReceivedCall(t)
  \/ \E t \in Threads : CreateLock(t)
  \/ \E t \in Threads, height \in CapHeightProperties, settable \in BOOLEAN :
       CreateCheck(t, height, settable)
  \/ \E t \in Threads : CreateSetup(t)
  \/ \E t \in Threads : NotifyShow(t)
  \/ \E id \in Ids : MayGo(id) /\ Dismiss(id)
  \/ \E id \in Ids, status \in {CallStatusConnected, CallStatusEnded} :
       (status = CallStatusEnded => MayGo(id)) /\ StatusChanged(id, status)
  \/ \E id \in Ids : MayGo(id) /\ TimerExpiry(id)
  \/ \E t \in Threads : HandlerLock(t)
  \/ \E t \in Threads : HandlerBody(t)

SpecCap == Init /\ [][NextCap]_vars

---------------------------------------------------------------------------
\* The run of Spec with fewer notifications and with the scheduling the program
\* runs under: a thread inside an operation goes on (and gets the mutex when it
\* is free again and again), and the event loop of the GUI thread, whenever it
\* is back in it, delivers a timer that is due.
ThreadStep(t) ==
  \/ CreateLock(t)
  \/ \E height \in HeightProperties, settable \in BOOLEAN : CreateCheck(t, height, settable)
  \/ CreateSetup(t)
  \/ NotifyShow(t)
  \/ HandlerLock(t)
  \/ HandlerBody(t)

TimerFires(id) == id \in Ids /\ TimerExpiry(id)

NextLive ==
  \/ \E t \in Threads :
       /\ MayCreate(MaxLiveObjects)
       /\ \/ notifyReceivedMessage(t)
          \/ notifyReceivedFileMessage(t)
          \/ notifyReceivedCall(t)
  \/ \E t \in Threads : ThreadStep(t)
  \/ \E id \in Ids : Dismiss(id)
  \/ \E id \in Ids, status \in {CallStatusConnected, CallStatusEnded} :
       StatusChanged(id, status)
  \/ \E id \in 1..MaxLiveObjects : TimerFires(id)

SpecLive ==
  /\ Init
  /\ [][NextLive]_vars
  /\ \A t \in Threads : SF_vars(ThreadStep(t))
  /\ \A id \in 1..MaxLiveObjects : SF_vars(TimerFires(id))

\* showNotification with the timeouts of TimeoutInputs: a caller that, like
\* notifyReceived*, creates a notification and shows it, with any timeout.
showNotificationCaller(t, type, timeout) == Notify(t, "showNotification", type, timeout)

NextTimeout ==
  \/ \E t \in Threads :
       /\ MayCreate(MaxTimeoutObjects)
       /\ \/ notifyReceivedMessage(t)
          \/ notifyReceivedFileMessage(t)
          \/ notifyReceivedCall(t)
          \/ \E timeout \in TimeoutInputs :
               showNotificationCaller(t, MessageReceived, timeout)
  \/ \E t \in Threads : CreateLock(t)
  \/ \E t \in Threads, height \in CapHeightProperties, settable \in BOOLEAN :
       CreateCheck(t, height, settable)
  \/ \E t \in Threads : CreateSetup(t)
  \/ \E t \in Threads : NotifyShow(t)
  \/ \E id \in Ids : Dismiss(id)
  \/ \E id \in Ids, status \in {CallStatusConnected, CallStatusEnded} :
       StatusChanged(id, status)
  \/ \E id \in Ids : TimerExpiry(id)
  \/ \E t \in Threads : HandlerLock(t)
  \/ \E t \in Threads : HandlerBody(t)

SpecTimeout == Init /\ [][NextTimeout]_vars

---------------------------------------------------------------------------
\* The thread t takes a step of the operation it is in.
Moves(t) == pc'[t] # pc[t]

\* The threads inside the visibleChanged handler: window hidden, counter not
\* yet decremented.
InHandler == {t \in Threads : pc[t] \in {"vc_lock", "vc_body"}}

\* C1: after any sequence of notify, dismissal, call-ended and timer events the
\* counter m_n_instances is between 0 and N_MAX_NOTIFICATIONS (15), and the cap
\* is one cap for the three kinds together: never more than 15 notifications
\* of all kinds are counted in.  Checked under SpecCap.
C1_CounterWithinCap ==
  /\ m_n_instances \in 0..N_MAX_NOTIFICATIONS
  /\ Cardinality(LiveInstances) <= N_MAX_NOTIFICATIONS

\* C1 witness: the counter is at the cap with a call notification and chat
\* messages on screen together, after an earlier notification has gone.
C1_Witness ==
  /\ m_n_instances = N_MAX_NOTIFICATIONS
  /\ Gone # {}
  /\ \E id \in Ids : Visible(id) /\ notifications[id].type = CallReceived
  /\ \E id \in Ids : Visible(id) /\ notifications[id].type = MessageReceived

\* C2: a request that finds the counter at 15 is dropped: createNotification
\* returns no notification and leaves counter, offset and notifications as they
\* are; the caller then returns with nothing shown and no timer; and a
\* notification is only ever created by a request that passed the check and
\* only ever shown by the request that created it, so a dropped request is
\* never served later.  Checked under SpecCap.
C2_DroppedAtCap ==
  [][/\ \A t \in Threads :
          (pc[t] = "cn_check" /\ m_n_instances >= N_MAX_NOTIFICATIONS /\ Moves(t)) =>
            /\ pc'[t] = "notify_ret"
            /\ frame'[t].notification = Null
            /\ UNCHANGED <<m_n_instances, m_offset, notifications>>
     /\ \A t \in Threads :
          (pc[t] = "notify_ret" /\ frame[t].notification = Null /\ Moves(t)) =>
            /\ pc'[t] = "idle"
            /\ frame'[t] = EmptyFrame
            /\ UNCHANGED <<m_n_instances, m_offset, notifications>>
     /\ Len(notifications') > Len(notifications) =>
          \E t \in Threads :
            /\ pc[t] = "cn_create" /\ Moves(t)
            /\ frame'[t].notification = Len(notifications')
     /\ \A id \in Ids :
          (notifications[id].window = "created" /\ notifications'[id].window # "created") =>
            \E t \in Threads :
              pc[t] = "notify_ret" /\ frame[t].notification = id /\ Moves(t)
    ]_vars

\* C2 witness: createNotification has just returned nullptr to a caller with the
\* counter at 15.
C2_Witness ==
  \E t \in Threads :
    /\ pc[t] = "notify_ret"
    /\ frame[t].notification = Null
    /\ m_n_instances = N_MAX_NOTIFICATIONS

\* C3: whenever the counter m_n_instances is 0 the offset m_offset is 0.
C3_OffsetZeroWhenEmpty == m_n_instances = 0 => m_offset = 0

\* C3 witness: a notification created after an earlier one has disappeared is
\* on screen at offset 0.
C3_Witness ==
  \E id \in Ids :
    /\ id > 1
    /\ Visible(id)
    /\ notifications[id].notificationOffset = 0
    /\ \A other \in Ids : other < id => other \in Gone

\* C4: a successful createNotification gives the popup the offset m_offset had
\* before the call, moves m_offset on by the popup's height plus the spacing of
\* 10, and raises the counter by one.
C4_StackedAtOffset ==
  [][\A t \in Threads :
       (pc[t] = "cn_create" /\ Moves(t) /\ frame'[t].notification # Null) =>
         LET popup == notifications'[frame'[t].notification]
         IN /\ popup.notificationOffset = m_offset
            /\ popup.notificationHeight = frame[t].object.notificationHeight.value
            /\ m_offset' = m_offset + popup.notificationHeight + 10
            /\ m_n_instances' = m_n_instances + 1
    ]_vars

\* C4 witness: a popup of height 20 was stacked at offset 60, above one of
\* height 50, and the next one goes to 90.
C4_Witness ==
  /\ Len(notifications) = 2
  /\ Visible(1) /\ notifications[1].notificationHeight = 50
  /\ Visible(2) /\ notifications[2].notificationOffset = 60
  /\ m_offset = 90

\* C5: once showNotification has run for a notification, its single-shot timer
\* eventually destroys it, whether or not it was dismissed and whether or not
\* its call ended.  Checked under SpecLive, whose fairness is the scheduling of
\* the threads and of the event loop.
C5_EventuallyDestroyed ==
  \A id \in 1..MaxLiveObjects :
    (id \in Ids /\ Shown(id) /\ Exists(id)) ~> (id \in Ids /\ notifications[id].expired)

\* C5 witness: a call notification that was shown has been destroyed by its
\* timer after its call had ended.
C5_Witness ==
  \E id \in Ids :
    /\ notifications[id].expired
    /\ notifications[id].call = CallStatusEnded

\* C6 as claimed: after a user dismissal the notification object no longer
\* exists.
C6_DismissedIsDestroyed ==
  \A id \in Ids : notifications[id].dismissed => ~Exists(id)

\* C6 as amended: a user dismissal only hides the popup window; the
\* notification object goes on existing, hidden and with its destroy timer
\* pending, and an object is gone if and only if its timer has fired.
C6_DismissedHiddenUntilTimer ==
  \A id \in Ids :
    /\ notifications[id].dismissed =>
         /\ Exists(id)
         /\ notifications[id].window = "hidden"
         /\ notifications[id].timer # NoTimer
    /\ ~Exists(id) <=> notifications[id].expired

\* C6 witness: a dismissed notification exists, counted out, while the GUI
\* thread is back in its event loop.
C6_Witness ==
  \E id \in Ids :
    /\ notifications[id].dismissed
    /\ Exists(id)
    /\ pc[GuiThread] = "idle"
    /\ m_n_instances = 0

\* C7: the delay of every destroy timer is min(timeout, 60000) for the timeout
\* showNotification was called with, so never more than 60000; the three notify
\* operations pass 10000, which is the delay of their timers.  Checked under
\* SpecTimeout.
C7_TimeoutClamped ==
  \A id \in Ids :
    notifications[id].timer # NoTimer =>
      LET n == notifications[id]
      IN /\ n.timer = (IF n.timeout <= 60000 THEN n.timeout ELSE 60000)
         /\ n.timer <= 60000
         /\ n.op \in {"notifyReceivedMessage", "notifyReceivedFileMessage",
                       "notifyReceivedCall"} => n.timeout = 10000 /\ n.timer = 10000

\* C7 witness: a notification shown with a timeout of 120000 has a timer of 60000.
C7_Witness ==
  \E id \in Ids : notifications[id].timeout = 120000 /\ notifications[id].timer = 60000

\* C8: a thread holds m_mutex exactly while it is between the lock() and the
\* unlock() of createNotification or of the visibleChanged handler, so on every
\* exit path the mutex is free again; and every step that reads the counter for
\* the capacity check or writes the counter or the offset is taken by the
\* thread that holds the mutex.
Critical == {"cn_check", "cn_create", "vc_body"}
C9_FailedCreation ==
  [][\A t \in Threads :
       /\ (/\ pc[t] = "cn_create" /\ Moves(t)
            /\ \/ frame[t].object.notificationHeight.kind # "int"
               \/ frame[t].object.notificationHeight.value < 0
               \/ ~frame[t].object.settable) =>
            /\ frame'[t].notification = Null
            /\ frame'[t].object = NoObject
            /\ UNCHANGED <<m_n_instances, m_offset, notifications>>
       /\ (pc[t] = "notify_ret" /\ frame[t].notification = Null /\ Moves(t)) =>
            /\ pc'[t] = "idle"
            /\ UNCHANGED <<m_n_instances, m_offset, notifications>>
    ]_vars

\* C9 witness: createNotification has returned nullptr to a caller although the
\* counter is below the cap, with a notification on screen.
C9_Witness ==
  \E t \in Threads :
    /\ pc[t] = "notify_ret"
    /\ frame[t].notification = Null
    /\ m_n_instances = 1
    /\ m_offset > 0

\* C10: the counter is decremented exactly once per notification: it equals
\* the number of notifications created and neither hidden nor destroyed, plus
\* the hides whose handler has not yet decremented it.
C10_CounterCountsLive ==
  m_n_instances = Cardinality(LiveInstances) + Cardinality(InHandler)

\* C10 witness: of two notifications the first has been destroyed by its timer
\* and the second is on screen, with the counter at 1.
C10_Witness ==
  /\ Len(notifications) = 2
  /\ ~Exists(1)
  /\ Visible(2)
  /\ InHandler = {}
  /\ m_n_instances = 1

\* C11: a change of the status of the call of a call notification to Ended,
\* while the notification exists, hides its window, and the hide of a window
\* that was on screen starts the handler that counts it out; a change to any
\* other status changes nothing of the notification; and a change of status,
\* Ended included, after the timer has destroyed the notification changes
\* nothing of the notifier and nothing of what is left of the notification.
CallStatusChanges(id) ==
  /\ id \in Ids
  /\ notifications[id].call # NoCall
  /\ Len(notifications') = Len(notifications)
  /\ notifications'[id].call # notifications[id].call

C11_CallEndedHides ==
  [][ \A id \in Ids :
        CallStatusChanges(id) =>
          /\ UNCHANGED <<m_n_instances, m_offset, m_mutex, frame>>
          /\ \A other \in Ids \ {id} : notifications'[other] = notifications[other]
          /\ Exists(id) => notifications[id].type = CallReceived
          /\ IF Exists(id) /\ notifications'[id].call = CallStatusEnded
               THEN /\ notifications'[id] =
                         [notifications[id] EXCEPT !.window = "hidden",
                                                   !.call = CallStatusEnded]
                    /\ id \notin LiveInstances'
                    /\ IF Visible(id)
                         THEN pc' = [pc EXCEPT ![GuiThread] = "vc_lock"]
                         ELSE pc' = pc
               ELSE /\ notifications'[id] =
                         [notifications[id] EXCEPT !.call = notifications'[id].call]
                    /\ pc' = pc
    ]_vars

\* C11 witness: a call notification that nobody dismissed and whose timer has
\* not fired is off screen, hidden by the end of its call, and has been counted
\* out of the instances.
C11_Witness ==
  \E id \in Ids :
    /\ Exists(id)
    /\ notifications[id].type = CallReceived
    /\ notifications[id].call = CallStatusEnded
    /\ notifications[id].window = "hidden"
    /\ ~notifications[id].dismissed
    /\ InHandler = {}
    /\ m_n_instances = 0

\* C12: no two notifications that are on screen at the same time overlap: of
\* any two visible notifications the intervals [notificationOffset,
\* notificationOffset + notificationHeight] are disjoint, one ending at least
\* the spacing of 10 below the start of the other.
Below(i, j) ==
  notifications[i].notificationOffset + notifications[i].notificationHeight
    + NOTIFICATION_SPACING <= notifications[j].notificationOffset

C12_VisibleDisjoint ==
  \A i \in Ids, j \in Ids :
    (i # j /\ Visible(i) /\ Visible(j)) => (Below(i, j) \/ Below(j, i))

\* C12 witness: a popup of height 50 is on screen at offset 30, above a
\* visible popup of height 20.
C12_Witness ==
  /\ Len(notifications) = 2
  /\ Visible(1) /\ notifications[1].notificationHeight = 20
  /\ Visible(2) /\ notifications[2].notificationHeight = 50
  /\ notifications[2].notificationOffset = 30

\* C13: the disappearance of a notification lowers the offset only when it was
\* the last one counted: the handler of a visibility change decrements the
\* counter and, when the counter stays above 0, leaves m_offset as it is, and
\* otherwise sets it to 0; every other change of m_offset is the growth, by
\* the popup's height plus 10, of a successful creation.
HandlerRuns(t) == pc[t] = "vc_body" /\ Moves(t)

Creates(t) == pc[t] = "cn_create" /\ Moves(t) /\ frame'[t].notification # Null

C13_OffsetKeptUnlessLast ==
  [][ /\ \A t \in Threads :
            HandlerRuns(t) =>
              /\ m_n_instances' = m_n_instances - 1
              /\ m_n_instances' > 0 => m_offset' = m_offset
              /\ m_n_instances' = 0 => m_offset' = 0
      /\ m_offset' < m_offset =>
            /\ \E t \in Threads : HandlerRuns(t)
            /\ m_n_instances' = 0
            /\ m_offset' = 0
      /\ m_offset' > m_offset =>
            \E t \in Threads :
              /\ Creates(t)
              /\ m_offset' = m_offset
                   + notifications'[frame'[t].notification].notificationHeight
                   + NOTIFICATION_SPACING
    ]_vars

\* C13 witness: of two popups the first was dismissed and counted out while
\* the second stays on screen above the emptied slot, and m_offset still
\* points above the second.
C13_Witness ==
  /\ Len(notifications) = 2
  /\ Exists(1) /\ notifications[1].dismissed
  /\ Visible(2)
  /\ notifications[2].notificationOffset > 0
  /\ InHandler = {}
  /\ InFlight = {}
  /\ m_n_instances = 1
  /\ m_offset = notifications[2].notificationOffset
                 + notifications[2].notificationHeight + NOTIFICATION_SPACING

\* C14: under every interleaving of createNotification calls of the two
\* threads and of visibility-change handlers, the capacity check and the
\* increment of the counter are one atomic section: a call that has passed the
\* check holds the mutex alone and still finds the counter below the cap when
\* it increments, so two calls at counter 14 never both succeed; and of two
\* notifications created with no reset of the offset in between, the later one
\* lies above the earlier one, so they never have the same notificationOffset.
PassedCheck == {t \in Threads : pc[t] = "cn_create"}

\* No notification between i and j was placed at offset 0, which is where
\* the first one after a reset goes (a destroyed one no longer tells).
NoResetBetween(i, j) ==
  \A k \in (i + 1)..j : notifications[k].notificationOffset # 0

C14_AtomicCheckAndStack ==
  /\ Cardinality({t \in Threads : pc[t] \in Critical}) <= 1
  /\ \A t \in PassedCheck : m_mutex = t /\ ~CapacityReached
  /\ m_n_instances + Cardinality(PassedCheck) <= N_MAX_NOTIFICATIONS
  /\ \A j \in Ids : \A i \in 1..(j - 1) :
       Below(i, j) \/ ~Exists(i) \/ ~Exists(j) \/ ~NoResetBetween(i, j)

\* C14 witness: with the counter at 14, a call on the core thread has passed
\* the capacity check and holds the mutex while a call on the GUI thread waits
\* for it.
C14_Witness ==
  /\ m_n_instances = N_MAX_NOTIFICATIONS - 1
  /\ pc[CoreThread] = "cn_create"
  /\ pc[GuiThread] = "cn_lock"
  /\ m_mutex = CoreThread

====
